---- MODULE Spec2Model ----
(***************************************************************************)
(* Model of backend.py: SubscriberManager (an insertion-ordered in-memory  *)
(* index of Subscriber records persisted as one JSON file) and its         *)
(* operations add_subscriber, verify_subscriber, get_subscriber_stats,     *)
(* save_subscribers and load_subscribers.                                  *)
(*                                                                         *)
(* Representation                                                          *)
(*   str           a sequence of one-character strings, so that lower() is *)
(*                 computed character by character                         *)
(*   dict          a sequence of <<key, value>> pairs in insertion order   *)
(*                 (Python dicts iterate in insertion order)               *)
(*   timestamp     the clock tick the isoformat() string was taken at      *)
(*   token         <<email, tick>>: sha256 of the concatenation, taken as  *)
(*                 injective                                               *)
(*   JSON text     tagged tuples <<"object", members>>, <<"string", s>>,   *)
(*                 <<"true">>, <<"false">>                                 *)
(***************************************************************************)
EXTENDS Integers, Sequences, FiniteSets, TLC

VARIABLES
  subscribers,  \* self.subscribers: dict email -> Subscriber
  file,         \* the backing file self.storage_file
  clock,        \* the value datetime.now() last returned
  last,         \* the last call made on the manager: arguments and result
  threads       \* the requests being served on threads of their own

vars == <<subscribers, file, clock, last, threads>>

\* Largest clock tick of a run.
MaxTime == 1

Times == 0..MaxTime

\* datetime.now() read when the last reading was c: the same tick or the next one
\* (the code only stores readings, so only their order matters).
Now(c) == {c, c + 1} \cap Times

-----------------------------------------------------------------------------
(* Strings and str.lower()                                                 *)

Letters == {"A", "a", "B", "b", "X", "x", "n", "c"}

LowerChar(c) ==
  CASE c = "A" -> "a"
    [] c = "B" -> "b"
    [] c = "X" -> "x"
    [] OTHER -> c

Lower(s) == [i \in 1..Len(s) |-> LowerChar(s[i])]

-----------------------------------------------------------------------------
(* validate_email of the email_validator package, as add_subscriber uses   *)
(* it: a syntax check, a deliverability check of the domain, and the       *)
(* normalized address (local part kept, domain lower-cased).               *)

AtSigns(s) == {i \in 1..Len(s) : s[i] = "@"}

AtPosition(s) == CHOOSE i \in 1..Len(s) : s[i] = "@"

LocalPart(s) == SubSeq(s, 1, AtPosition(s) - 1)

DomainPart(s) == SubSeq(s, AtPosition(s) + 1, Len(s))

DomainSyntaxOK(d) ==
  /\ Len(d) >= 3
  /\ d[1] # "."
  /\ d[Len(d)] # "."
  /\ \E i \in 1..Len(d) : d[i] = "."
  /\ \A i \in 1..Len(d) : d[i] \in Letters \cup {"."}

SyntaxOK(s) ==
  /\ Cardinality(AtSigns(s)) = 1
  /\ Len(LocalPart(s)) >= 1
  /\ \A i \in 1..Len(LocalPart(s)) : LocalPart(s)[i] \in Letters
  /\ DomainSyntaxOK(DomainPart(s))

\* The domains the resolver knows a mail exchanger for.
DeliverableDomains == { <<"x", ".", "c">> }

EmailValid(s) == SyntaxOK(s) /\ Lower(DomainPart(s)) \in DeliverableDomains

NormalizedEmail(s) == LocalPart(s) \o <<"@">> \o Lower(DomainPart(s))

-----------------------------------------------------------------------------
(* dict                                                                    *)

DictHas(d, k) == \E i \in 1..Len(d) : d[i][1] = k

DictGet(d, k) == d[CHOOSE i \in 1..Len(d) : d[i][1] = k][2]

\* DictSet rebinding the dict to the one entry.
DictSetAlone(d, k, v) == << <<k, v>> >>

DictSet(d, k, v) ==
  IF DictHas(d, k)
  THEN [i \in 1..Len(d) |-> IF d[i][1] = k THEN <<k, v>> ELSE d[i]]
  ELSE Append(d, <<k, v>>)

-----------------------------------------------------------------------------
(* The inputs of a run                                                     *)

EmailInputs ==
  { <<"A", "@", "X", ".", "c">>,      \* A@X.c
    <<"a", "@", "x", ".", "c">>,      \* a@x.c
    <<"B", "@", "x", ".", "c">>,      \* B@x.c
    <<"n", "o", "t">>,                \* no @
    <<"a", "@", "n", ".", "c">> }     \* well-formed, domain without mail exchanger

NoMetadata == <<"none">>

MetadataOf(pairs) == <<"dict", pairs>>

\* metadata: Optional[Dict], as parsed from a JSON request body
MetadataInputs ==
  { NoMetadata, MetadataOf(<< >>), MetadataOf(<< <<"src", "web">> >>) }

NoToken == << << >>, 0 >>

\* A token guessed for an address: right only if issued at tick 0.
GuessedToken == << <<"a", "@", "x", ".", "c">>, 0 >>

\* The tokens a caller may present: one of no record, a guessed one, and the
\* tokens issued to the records of subs.
TokenInputs(subs) ==
  {NoToken, GuessedToken} \cup { subs[i][2].verification_token : i \in 1..Len(subs) }

-----------------------------------------------------------------------------
(* Subscriber and its JSON form                                            *)

FieldNames ==
  << "email", "joined_date", "status", "verification_token", "verified",
     "last_updated", "metadata" >>

JString(s) == <<"string", s>>

JBool(b) == IF b THEN <<"true">> ELSE <<"false">>

JObject(members) == <<"object", members>>

\* json.dump of a metadata dict (str -> str)
DumpMetadata(m) == JObject([i \in 1..Len(m) |-> <<m[i][1], JString(m[i][2])>>])

\* DumpSubscriber leaving the metadata out.
DumpSubscriberNoMetadata(sub) ==
  JObject(<< <<"email", JString(sub.email)>>,
             <<"joined_date", JString(sub.joined_date)>>,
             <<"status", JString(sub.status)>>,
             <<"verification_token", JString(sub.verification_token)>>,
             <<"verified", JBool(sub.verified)>>,
             <<"last_updated", JString(sub.last_updated)>> >>)

\* asdict(subscriber), then json.dump of the resulting dict
DumpSubscriber(sub) ==
  JObject(<< <<"email", JString(sub.email)>>,
             <<"joined_date", JString(sub.joined_date)>>,
             <<"status", JString(sub.status)>>,
             <<"verification_token", JString(sub.verification_token)>>,
             <<"verified", JBool(sub.verified)>>,
             <<"last_updated", JString(sub.last_updated)>>,
             <<"metadata", DumpMetadata(sub.metadata)>> >>)

\* The text save_subscribers writes for the index subs.
JsonDump(subs) ==
  JObject([i \in 1..Len(subs) |-> <<subs[i][1], DumpSubscriber(subs[i][2])>>])

\* json.load of a scalar
LoadScalar(j) ==
  IF j[1] = "true" THEN TRUE ELSE IF j[1] = "false" THEN FALSE ELSE j[2]

\* json.load of a metadata object
LoadMetadata(j) == [i \in 1..Len(j[2]) |-> <<j[2][i][1], LoadScalar(j[2][i][2])>>]

\* Whether Subscriber(**sub_data) accepts the object: a dict holding exactly the
\* seven fields of the dataclass.
SubscriberArgsOK(j) ==
  /\ j[1] = "object"
  /\ Len(j[2]) = Len(FieldNames)
  /\ \A n \in 1..Len(FieldNames) : \E i \in 1..Len(j[2]) : j[2][i][1] = FieldNames[n]

Member(j, name) == j[2][CHOOSE i \in 1..Len(j[2]) : j[2][i][1] = name][2]

\* Subscriber(**sub_data)
LoadSubscriber(j) ==
  [ email              |-> LoadScalar(Member(j, "email")),
    joined_date        |-> LoadScalar(Member(j, "joined_date")),
    status             |-> LoadScalar(Member(j, "status")),
    verification_token |-> LoadScalar(Member(j, "verification_token")),
    verified           |-> LoadScalar(Member(j, "verified")),
    last_updated       |-> LoadScalar(Member(j, "last_updated")),
    metadata           |-> LoadMetadata(Member(j, "metadata")) ]

\* The backing file: absent, unparsable, or holding a JSON text.
AbsentFile == [kind |-> "absent", text |-> << >>]

CorruptFile == [kind |-> "corrupt", text |-> << >>]

JsonFile(j) == [kind |-> "json", text |-> j]

\* The exception the try block of load_subscribers ends with, "none" if none.
LoadFailure(f) ==
  IF f.kind = "corrupt" THEN "JSONDecodeError"
  ELSE IF f.kind = "json" /\ \E i \in 1..Len(f.text[2]) : ~SubscriberArgsOK(f.text[2][i][2])
  THEN "TypeError"
  ELSE "none"

\* load_subscribers keeping the entries that make a Subscriber.
LoadSubscribersWellFormed(f, cur) ==
  IF f.kind = "absent" THEN cur
  ELSE IF f.kind = "corrupt" THEN << >>
  ELSE SelectSeq([i \in 1..Len(f.text[2]) |->
                    IF SubscriberArgsOK(f.text[2][i][2])
                    THEN <<f.text[2][i][1], LoadSubscriber(f.text[2][i][2])>>
                    ELSE << >>],
                 LAMBDA e : e # << >>)

\* load_subscribers on a manager whose index is cur: the index it leaves.
LoadSubscribers(f, cur) ==
  IF f.kind = "absent" THEN cur
  ELSE IF f.kind = "corrupt" THEN << >>
  ELSE IF \A i \in 1..Len(f.text[2]) : SubscriberArgsOK(f.text[2][i][2])
       THEN [i \in 1..Len(f.text[2]) |->
               <<f.text[2][i][1], LoadSubscriber(f.text[2][i][2])>>]
       ELSE << >>

\* What a write of the backing file may come to.
SaveOutcomes == {"ok", "open_failed", "write_failed"}

\* WriteFile opening the file to append to it: a second text after the first
\* makes the file unparsable.
WriteFileAppending(text, f, outcome) ==
  IF outcome = "ok" THEN (IF f.kind = "absent" THEN JsonFile(text) ELSE CorruptFile)
  ELSE IF outcome = "open_failed" THEN f
  ELSE CorruptFile

\* with open(.., "w") as file: json.dump(data, file): the file it leaves.
\* open may fail before the file is touched; a failure while writing leaves a
\* truncated text.
WriteFile(text, f, outcome) ==
  IF outcome = "ok" THEN JsonFile(text)
  ELSE IF outcome = "open_failed" THEN f
  ELSE CorruptFile

\* save_subscribers: the file it leaves.
SaveSubscribers(subs, f, outcome) == WriteFile(JsonDump(subs), f, outcome)

-----------------------------------------------------------------------------
(* The manager's operations                                                *)

\* IndexKey without the lower-casing.
IndexKeyAsGiven(email) == email

\* The key a registration is looked up and stored under.
IndexKey(email) == Lower(email)

\* metadata or {}
MetadataOrEmpty(metadata) ==
  IF metadata[1] = "dict" /\ metadata[2] # << >> THEN metadata[2] ELSE << >>

\* hashlib.sha256(f"{email}{now}").hexdigest()
VerificationToken(email, t) == <<email, t>>

\* NewSubscriber creating the record as already active.
NewSubscriberActive(email, metadata, t1, t2, t3) ==
  [ email              |-> Lower(email),
    joined_date        |-> t2,
    status             |-> "active",
    verification_token |-> VerificationToken(email, t1),
    verified           |-> FALSE,
    last_updated       |-> t3,
    metadata           |-> MetadataOrEmpty(metadata) ]

\* NewSubscriber storing the address as normalized, not lower-cased.
NewSubscriberEmailAsGiven(email, metadata, t1, t2, t3) ==
  [ email              |-> email,
    joined_date        |-> t2,
    status             |-> "pending",
    verification_token |-> VerificationToken(email, t1),
    verified           |-> FALSE,
    last_updated       |-> t3,
    metadata           |-> MetadataOrEmpty(metadata) ]

\* Subscriber(...) of add_subscriber; t1, t2, t3 are its three clock readings.
NewSubscriber(email, metadata, t1, t2, t3) ==
  [ email              |-> Lower(email),
    joined_date        |-> t2,
    status             |-> "pending",
    verification_token |-> VerificationToken(email, t1),
    verified           |-> FALSE,
    last_updated       |-> t3,
    metadata           |-> MetadataOrEmpty(metadata) ]

\* The position of the first record, in iteration order, holding the token; 0 if none.
RECURSIVE ScanToken(_, _, _)
ScanToken(subs, token, i) ==
  IF i > Len(subs) THEN 0
  ELSE IF subs[i][2].verification_token = token THEN i
  ELSE ScanToken(subs, token, i + 1)

\* FindToken passing over the records already verified.
FindUnverifiedToken(subs, token) ==
  IF ScanToken(subs, token, 1) # 0 /\ subs[ScanToken(subs, token, 1)][2].verified
  THEN 0
  ELSE ScanToken(subs, token, 1)

\* FindToken falling back on the record the loop ended on when none matched.
FindTokenElseLast(subs, token) ==
  IF ScanToken(subs, token, 1) = 0 THEN Len(subs) ELSE ScanToken(subs, token, 1)

FindToken(subs, token) == ScanToken(subs, token, 1)

\* MarkVerified setting the status and not the flag.
MarkVerifiedStatusOnly(sub, t) ==
  [sub EXCEPT !.status = "active", !.last_updated = t]

\* MarkVerified setting the flag and not the status.
MarkVerifiedFlagOnly(sub, t) ==
  [sub EXCEPT !.verified = TRUE, !.last_updated = t]

\* MarkVerified leaving last_updated as it was.
MarkVerifiedKeepingTime(sub, t) ==
  [sub EXCEPT !.verified = TRUE, !.status = "active"]

\* The body of verify_subscriber's loop on a match.
MarkVerified(sub, t) ==
  [sub EXCEPT !.verified = TRUE, !.status = "active", !.last_updated = t]

RECURSIVE CountActive(_)
CountActive(subs) ==
  IF subs = << >> THEN 0
  ELSE (IF Head(subs)[2].status = "active" THEN 1 ELSE 0) + CountActive(Tail(subs))

\* CountUnverified counting the verified records.
RECURSIVE CountVerified(_)
CountVerified(subs) ==
  IF subs = << >> THEN 0
  ELSE (IF Head(subs)[2].verified THEN 1 ELSE 0) + CountVerified(Tail(subs))

RECURSIVE CountUnverified(_)
CountUnverified(subs) ==
  IF subs = << >> THEN 0
  ELSE (IF ~Head(subs)[2].verified THEN 1 ELSE 0) + CountUnverified(Tail(subs))

NoStats == [total |-> 0, active |-> 0, unverified |-> 0]

SubscriberStats(subs) ==
  [ total      |-> Len(subs),
    active     |-> CountActive(subs),
    unverified |-> CountUnverified(subs) ]

\* EmailNotValid catching the syntax errors only.
EmailNotValidSyntaxOnly(email) == ~SyntaxOK(email)

\* What validate_email raising EmailNotValidError comes to (the except clause).
EmailNotValid(email) == ~EmailValid(email)

\* The record of a call: what was asked, what came back (the status code, the
\* counts of a report), how many times save_subscribers ran and how its write
\* ended; before is the status the record matching a token had when the call
\* began, again whether the call repeats the successful verification before it.
Call(op, email, metadata, token, code, saves, outcome, stats, before, again) ==
  [ op |-> op, email |-> email, metadata |-> metadata, token |-> token,
    code |-> code, saves |-> saves, outcome |-> outcome, stats |-> stats,
    before |-> before, again |-> again ]

NoCall ==
  Call("init", << >>, NoMetadata, NoToken, 0, 0, "none", NoStats, "none", FALSE)

\* SubscriberManager(storage_file): an empty index, then load_subscribers.
Construct(f) == LoadSubscribers(f, << >>)

\* except Exception: the exceptions the handler of load_subscribers catches.
LoadCatches(exception) == exception \in {"JSONDecodeError", "TypeError"}

\* The record of a construction on the file f: its outcome is "raised" if an
\* exception leaves load_subscribers.
ConstructCall(f) ==
  [NoCall EXCEPT !.outcome =
     IF LoadFailure(f) # "none" /\ ~LoadCatches(LoadFailure(f)) THEN "raised" ELSE "none"]

\* A JSON file that is no index of this program: its second entry lacks fields
\* of Subscriber.
ForeignFile ==
  JsonFile(JObject(
    << << <<"a", "@", "x", ".", "c">>,
          DumpSubscriber([ email              |-> <<"a", "@", "x", ".", "c">>,
                           joined_date        |-> 0,
                           status             |-> "pending",
                           verification_token |-> << <<"a", "@", "x", ".", "c">>, 0 >>,
                           verified           |-> FALSE,
                           last_updated       |-> 0,
                           metadata           |-> << >> ]) >>,
       << <<"b", "@", "x", ".", "c">>,
          JObject(<< <<"email", JString(<<"b", "@", "x", ".", "c">>)>> >>) >> >>))

\* No request is being served on a thread of its own.
NoThreads == << >>

Init ==
  /\ file \in {AbsentFile, CorruptFile, ForeignFile}
  /\ subscribers = Construct(file)
  /\ clock = 0
  /\ last = ConstructCall(file)
  /\ threads = NoThreads

\* add_subscriber returning an error: nothing else happens, and the metadata
\* has not been looked at.
RejectAdd(email, code) ==
  /\ last' = Call("add", email, NoMetadata, NoToken, code, 0, "none", NoStats,
                  "none", FALSE)
  /\ UNCHANGED <<subscribers, file, clock, threads>>

\* add_subscriber undoing the insertion and reporting 500 when the write fails.
AddSubscriberRollingBack(email, metadata) ==
  IF EmailNotValid(email) THEN RejectAdd(email, 400)
  ELSE IF DictHas(subscribers, IndexKey(NormalizedEmail(email)))
  THEN RejectAdd(email, 409)
  ELSE \E t1 \in Now(clock), outcome \in SaveOutcomes :
       \E t2 \in Now(t1) : \E t3 \in Now(t2) :
       /\ subscribers' =
            IF outcome = "ok"
            THEN DictSet(subscribers, IndexKey(NormalizedEmail(email)),
                         NewSubscriber(NormalizedEmail(email), metadata, t1, t2, t3))
            ELSE subscribers
       /\ file' = SaveSubscribers(subscribers', file, outcome)
       /\ clock' = t3
       /\ last' = Call("add", email, metadata, NoToken,
                       IF outcome = "ok" THEN 201 ELSE 500, 1, outcome, NoStats,
                       "none", FALSE)
       /\ UNCHANGED threads

\* add_subscriber(email, metadata)
AddSubscriber(email, metadata) ==
  IF EmailNotValid(email) THEN RejectAdd(email, 400)
  ELSE IF DictHas(subscribers, IndexKey(NormalizedEmail(email)))
  THEN RejectAdd(email, 409)
  ELSE \E t1 \in Now(clock), outcome \in SaveOutcomes :
       \E t2 \in Now(t1) : \E t3 \in Now(t2) :
       /\ subscribers' =
            DictSet(subscribers, IndexKey(NormalizedEmail(email)),
                    NewSubscriber(NormalizedEmail(email), metadata, t1, t2, t3))
       /\ file' = SaveSubscribers(subscribers', file, outcome)
       /\ clock' = t3
       /\ last' = Call("add", email, metadata, NoToken, 201, 1, outcome, NoStats,
                       "none", FALSE)
       /\ UNCHANGED threads

\* verify_subscriber without the call of save_subscribers.
VerifySubscriberUnsaved(token) ==
  IF FindToken(subscribers, token) = 0
  THEN /\ last' = Call("verify", << >>, NoMetadata, token, 400, 0, "none", NoStats,
                       "none", FALSE)
       /\ UNCHANGED <<subscribers, file, clock, threads>>
  ELSE \E t \in Now(clock) :
       /\ subscribers' =
            [subscribers EXCEPT ![FindToken(subscribers, token)][2] = MarkVerified(@, t)]
       /\ clock' = t
       /\ last' = Call("verify", << >>, NoMetadata, token, 200, 0, "none", NoStats,
                       subscribers[FindToken(subscribers, token)][2].status,
                       last.op = "verify" /\ last.code = 200 /\ last.token = token)
       /\ UNCHANGED <<file, threads>>

\* verify_subscriber(token)
VerifySubscriber(token) ==
  IF FindToken(subscribers, token) = 0
  THEN /\ last' = Call("verify", << >>, NoMetadata, token, 400, 0, "none", NoStats,
                       "none", FALSE)
       /\ UNCHANGED <<subscribers, file, clock, threads>>
  ELSE \E t \in Now(clock), outcome \in SaveOutcomes :
       /\ subscribers' =
            [subscribers EXCEPT ![FindToken(subscribers, token)][2] = MarkVerified(@, t)]
       /\ file' = SaveSubscribers(subscribers', file, outcome)
       /\ clock' = t
       /\ last' = Call("verify", << >>, NoMetadata, token, 200, 1, outcome, NoStats,
                       subscribers[FindToken(subscribers, token)][2].status,
                       last.op = "verify" /\ last.code = 200 /\ last.token = token)
       /\ UNCHANGED threads

\* get_subscriber_stats()
GetSubscriberStats ==
  \E t \in Now(clock) :
    /\ clock' = t
    /\ last' = Call("stats", << >>, NoMetadata, NoToken, 200, 0, "none",
                    SubscriberStats(subscribers), "none", FALSE)
    /\ UNCHANGED <<subscribers, file, threads>>

\* The process starts again: a new manager is constructed on the backing file.
Restart ==
  /\ subscribers' = Construct(file)
  /\ last' = ConstructCall(file)
  /\ UNCHANGED <<file, clock, threads>>

\* The requests the routes /subscribe and /verify/<token> pass on.
Subscribe ==
  \E email \in EmailInputs, metadata \in MetadataInputs : AddSubscriber(email, metadata)

VerifyEmail == \E token \in TokenInputs(subscribers) : VerifySubscriber(token)

Next ==
  \/ Subscribe
  \/ VerifyEmail
  \/ GetSubscriberStats
  \/ Restart

-----------------------------------------------------------------------------
(* Requests served on threads of their own (the routes call the one        *)
(* module-level manager, which takes no lock). A step is a statement, or a  *)
(* run of statements, of the manager that reads or writes the index or the  *)
(* file.                                                                    *)

ThreadIds == {"t1", "t2"}

NoSubscriber == NewSubscriber(<< >>, NoMetadata, 0, 0, 0)

\* A thread: where it stands (pc), the call it serves, the Subscriber it has
\* built (sub), the dict save_subscribers has built (data), how its write
\* ended (wrote) and the status code it returned (code).
Thread(pc, op, email, metadata, token, sub, data, wrote, code) ==
  [ pc |-> pc, op |-> op, email |-> email, metadata |-> metadata, token |-> token,
    sub |-> sub, data |-> data, wrote |-> wrote, code |-> code ]

IdleThread ==
  Thread("idle", "none", << >>, NoMetadata, NoToken, NoSubscriber, << >>, "none", 0)

InitThreads ==
  /\ file = AbsentFile
  /\ subscribers = Construct(file)
  /\ clock = 0
  /\ last = ConstructCall(file)
  /\ threads = [t \in ThreadIds |-> IdleThread]

\* subscribe() calls add_subscriber, which validates the address.
BeginAdd(t, email, metadata) ==
  /\ threads[t].pc = "idle"
  /\ threads' =
       [threads EXCEPT ![t] =
          IF EmailNotValid(email)
          THEN [@ EXCEPT !.pc = "done", !.op = "add", !.email = email, !.code = 400]
          ELSE [@ EXCEPT !.pc = "check", !.op = "add", !.email = NormalizedEmail(email),
                         !.metadata = metadata]]
  /\ UNCHANGED <<subscribers, file, clock, last>>

\* add_subscriber: the check that the email exists, then the token and the
\* Subscriber.
CheckExists(t) ==
  /\ threads[t].pc = "check"
  /\ IF DictHas(subscribers, IndexKey(threads[t].email))
     THEN /\ threads' = [threads EXCEPT ![t].pc = "done", ![t].code = 409]
          /\ UNCHANGED clock
     ELSE \E t1 \in Now(clock) : \E t2 \in Now(t1) : \E t3 \in Now(t2) :
          /\ threads' =
               [threads EXCEPT
                  ![t].pc = "insert",
                  ![t].sub = NewSubscriber(threads[t].email, threads[t].metadata, t1, t2, t3)]
          /\ clock' = t3
  /\ UNCHANGED <<subscribers, file, last>>

\* add_subscriber: self.subscribers[email.lower()] = subscriber
Insert(t) ==
  /\ threads[t].pc = "insert"
  /\ subscribers' = DictSet(subscribers, IndexKey(threads[t].email), threads[t].sub)
  /\ threads' = [threads EXCEPT ![t].pc = "snapshot"]
  /\ UNCHANGED <<file, clock, last>>

\* verify_email() calls verify_subscriber, which scans the index and updates
\* the record it matches.
BeginVerify(t, token) ==
  /\ threads[t].pc = "idle"
  /\ IF FindToken(subscribers, token) = 0
     THEN /\ threads' =
               [threads EXCEPT ![t] =
                  [@ EXCEPT !.pc = "done", !.op = "verify", !.token = token, !.code = 400]]
          /\ UNCHANGED <<subscribers, clock>>
     ELSE \E now \in Now(clock) :
          /\ subscribers' =
               [subscribers EXCEPT
                  ![FindToken(subscribers, token)][2] = MarkVerified(@, now)]
          /\ clock' = now
          /\ threads' =
               [threads EXCEPT ![t] =
                  [@ EXCEPT !.pc = "snapshot", !.op = "verify", !.token = token]]
  /\ UNCHANGED <<file, last>>

\* save_subscribers: data = {email: asdict(subscriber) ...}
Snapshot(t) ==
  /\ threads[t].pc = "snapshot"
  /\ threads' = [threads EXCEPT ![t].pc = "write", ![t].data = JsonDump(subscribers)]
  /\ UNCHANGED <<subscribers, file, clock, last>>

\* save_subscribers: the write of data; then the call returns.
Write(t) ==
  /\ threads[t].pc = "write"
  /\ \E outcome \in SaveOutcomes :
       /\ file' = WriteFile(threads[t].data, file, outcome)
       /\ threads' =
            [threads EXCEPT ![t].pc = "done", ![t].wrote = outcome,
                            ![t].code = IF threads[t].op = "add" THEN 201 ELSE 200]
  /\ UNCHANGED <<subscribers, clock, last>>

NextThreads ==
  \/ \E t \in ThreadIds, email \in EmailInputs, metadata \in MetadataInputs :
       BeginAdd(t, email, metadata)
  \/ \E t \in ThreadIds : CheckExists(t)
  \/ \E t \in ThreadIds : Insert(t)
  \/ \E t \in ThreadIds : \E token \in TokenInputs(subscribers) : BeginVerify(t, token)
  \/ \E t \in ThreadIds : Snapshot(t)
  \/ \E t \in ThreadIds : Write(t)

SpecThreads == InitThreads /\ [][NextThreads]_vars

\* The runs in which every write of the backing file succeeds, from an absent
\* file.
WriteSucceeds == last'.outcome \in {"ok", "none"}

InitReliable == Init /\ file = AbsentFile

NextReliable ==
  \/ Subscribe /\ WriteSucceeds
  \/ VerifyEmail /\ WriteSucceeds
  \/ GetSubscriberStats
  \/ Restart

SpecReliable == InitReliable /\ [][NextReliable]_vars

Spec == Init /\ [][Next]_vars

-----------------------------------------------------------------------------
(* Properties. In an action formula the unprimed variables are the state a  *)
(* call begins in, the primed ones the state it ends in, and last' is the   *)
(* call itself.                                                             *)

Positions(subs) == 1..Len(subs)

\* The positions of the records of subs that describe the address key.
RecordsOf(subs, key) == {i \in Positions(subs) : Lower(subs[i][2].email) = key}

\* C1: add_subscriber with a valid email whose lower-cased normalized form is no
\* key of the index returns 201 and leaves the index with exactly one more
\* entry, keyed by the lower-cased email, with status pending, verified false
\* and the supplied metadata (the empty mapping if none was given); every entry
\* that existed is unchanged.
C1_AddNewEmail ==
  [][ ( /\ last'.op = "add"
        /\ EmailValid(last'.email)
        /\ ~DictHas(subscribers, Lower(NormalizedEmail(last'.email))) )
      => /\ last'.code = 201
         /\ Len(subscribers') = Len(subscribers) + 1
         /\ \A i \in Positions(subscribers) : subscribers'[i] = subscribers[i]
         /\ subscribers'[Len(subscribers')][1] = Lower(NormalizedEmail(last'.email))
         /\ subscribers'[Len(subscribers')][2].status = "pending"
         /\ subscribers'[Len(subscribers')][2].verified = FALSE
         /\ subscribers'[Len(subscribers')][2].metadata =
              (IF last'.metadata[1] = "none" THEN << >> ELSE last'.metadata[2])
    ]_vars

\* C1 happens: a registration with metadata succeeded on an index that already
\* held a record.
C1_Witness ==
  /\ last.op = "add" /\ last.code = 201
  /\ last.metadata[1] = "dict" /\ last.metadata[2] # << >>
  /\ Len(subscribers) = 2

\* C2: add_subscriber with an email whose lower-cased form is already a key of
\* the index fails with 409 (not the validation error 400); the index is
\* unchanged and still holds exactly one record for that email, with its
\* token, and nothing is saved.
C2_AddDuplicate ==
  [][ ( /\ last'.op = "add"
        /\ DictHas(subscribers, Lower(last'.email)) )
      => /\ last'.code = 409
         /\ last'.code # 400
         /\ subscribers' = subscribers
         /\ Cardinality(RecordsOf(subscribers', Lower(last'.email))) = 1
         /\ DictGet(subscribers', Lower(last'.email)).verification_token =
              DictGet(subscribers, Lower(last'.email)).verification_token
         /\ file' = file
         /\ last'.saves = 0
    ]_vars

\* C2 happens: a registration was refused as a duplicate although it spells the
\* address with other letter case than the stored key.
C2_Witness ==
  /\ last.op = "add" /\ last.code = 409
  /\ last.email # Lower(last.email)
  /\ DictHas(subscribers, Lower(last.email))

\* The positions of the pending records of subs that hold the token.
PendingWith(subs, token) ==
  {i \in Positions(subs) :
     subs[i][2].verification_token = token /\ subs[i][2].status = "pending"}

\* C3: verify_subscriber with the token of a pending record returns 200 and
\* makes that record verified and active; no other record changes; the report
\* of get_subscriber_stats before and after differs by unverified - 1,
\* active + 1, total unchanged.
C3_VerifyPending ==
  [][ ( /\ last'.op = "verify"
        /\ PendingWith(subscribers, last'.token) # {} )
      => /\ last'.code = 200
         /\ Len(subscribers') = Len(subscribers)
         /\ \A i \in PendingWith(subscribers, last'.token) :
              /\ subscribers'[i][1] = subscribers[i][1]
              /\ subscribers'[i][2].verified = TRUE
              /\ subscribers'[i][2].status = "active"
         /\ \A i \in Positions(subscribers) \ PendingWith(subscribers, last'.token) :
              subscribers'[i] = subscribers[i]
         /\ SubscriberStats(subscribers').unverified = SubscriberStats(subscribers).unverified - 1
         /\ SubscriberStats(subscribers').active = SubscriberStats(subscribers).active + 1
         /\ SubscriberStats(subscribers').total = SubscriberStats(subscribers).total
    ]_vars

\* C3 happens: a pending record was verified while another record was in the
\* index.
C3_Witness ==
  /\ last.op = "verify" /\ last.code = 200 /\ last.before = "pending"
  /\ Len(subscribers) = 2

\* A verify_subscriber call that repeats, with the same token, the successful
\* verify_subscriber call made just before it.
VerifiedAgain ==
  /\ last.op = "verify" /\ last.code = 200
  /\ last'.op = "verify" /\ last'.token = last.token

\* C4 as stated: verifying the same valid token twice in succession succeeds
\* and leaves the matching record identical in all of its fields, re-saves an
\* identical state and reports the same counts.
C4_ReverifyIdentical ==
  [][ VerifiedAgain
      => /\ last'.code = 200
         /\ subscribers' = subscribers
         /\ (last.outcome = "ok" /\ last'.outcome = "ok" => file' = file)
         /\ SubscriberStats(subscribers') = SubscriberStats(subscribers)
    ]_vars

\* C4, amended: verifying the same valid token twice in succession succeeds
\* and leaves the matching record identical in every field but last_updated,
\* which is set to the time of the second call; no other record changes, the
\* text saved is that of this index, and the counts are the same.
C4_ReverifyButLastUpdated ==
  [][ VerifiedAgain
      => /\ last'.code = 200
         /\ Len(subscribers') = Len(subscribers)
         /\ \A i \in Positions(subscribers) :
              IF subscribers[i][2].verification_token = last'.token
              THEN subscribers'[i] =
                     <<subscribers[i][1], [subscribers[i][2] EXCEPT !.last_updated = clock']>>
              ELSE subscribers'[i] = subscribers[i]
         /\ (last'.outcome = "ok" => file' = JsonFile(JsonDump(subscribers')))
         /\ SubscriberStats(subscribers') = SubscriberStats(subscribers)
    ]_vars

\* C4 happens: a token was verified a second time in succession, at a later
\* tick than the record was created at.
C4_Witness ==
  /\ last.op = "verify" /\ last.code = 200 /\ last.again
  /\ \E i \in Positions(subscribers) :
       /\ subscribers[i][2].verification_token = last.token
       /\ subscribers[i][2].last_updated > subscribers[i][2].joined_date

\* C5: verify_subscriber with a token that no record holds fails with 400 and
\* changes nothing: the index (last_updated included) and the backing file are
\* as before and nothing is saved.
C5_VerifyUnknownToken ==
  [][ ( /\ last'.op = "verify"
        /\ \A i \in Positions(subscribers) :
             subscribers[i][2].verification_token # last'.token )
      => /\ last'.code = 400
         /\ subscribers' = subscribers
         /\ file' = file
         /\ last'.saves = 0
    ]_vars

\* C5 happens: a guessed token was refused by an index holding a record of the
\* address it was guessed for.
C5_Witness ==
  /\ last.op = "verify" /\ last.code = 400
  /\ last.token = GuessedToken
  /\ DictHas(subscribers, GuessedToken[1])

\* C6: add_subscriber with an address the validator rejects fails with 400 and
\* leaves the index and the backing file unchanged, nothing being saved,
\* whatever the index holds.
C6_AddInvalidEmail ==
  [][ ( /\ last'.op = "add"
        /\ ~EmailValid(last'.email) )
      => /\ last'.code = 400
         /\ subscribers' = subscribers
         /\ file' = file
         /\ last'.saves = 0
    ]_vars

\* C6 happens: a malformed address was refused by an index holding records.
C6_Witness ==
  /\ last.op = "add" /\ last.code = 400
  /\ ~SyntaxOK(last.email)
  /\ Len(subscribers) >= 1

\* C7: after a save_subscribers whose write succeeded, constructing a manager
\* on the backing file (load_subscribers) yields an index with the same keys
\* and records equal field for field.
C7_SaveLoadRoundTrip ==
  (last.saves = 1 /\ last.outcome = "ok")
    => /\ file.kind = "json"
       /\ Len(Construct(file)) = Len(subscribers)
       /\ \A i \in Positions(subscribers) :
            /\ Construct(file)[i][1] = subscribers[i][1]
            /\ \A n \in 1..Len(FieldNames) :
                 Construct(file)[i][2][FieldNames[n]] = subscribers[i][2][FieldNames[n]]

\* C7 happens: an index of two records, one verified and one with metadata, was
\* saved.
C7_Witness ==
  /\ last.saves = 1 /\ last.outcome = "ok"
  /\ Len(subscribers) = 2
  /\ \E i \in Positions(subscribers) : subscribers[i][2].verified
  /\ \E i \in Positions(subscribers) : subscribers[i][2].metadata # << >>

\* C8: get_subscriber_stats reports total = the number of records, active = the
\* number of records with status active, unverified = the number of records
\* with verified false, all of the index as the call finds it, and changes
\* neither the index nor the backing file; on an empty index it reports 0, 0, 0.
C8_StatsPureRead ==
  [][ last'.op = "stats"
      => /\ last'.stats.total = Len(subscribers)
         /\ last'.stats.active =
              Cardinality({i \in Positions(subscribers) : subscribers[i][2].status = "active"})
         /\ last'.stats.unverified =
              Cardinality({i \in Positions(subscribers) : subscribers[i][2].verified = FALSE})
         /\ (subscribers = << >> =>
               last'.stats = [total |-> 0, active |-> 0, unverified |-> 0])
         /\ subscribers' = subscribers
         /\ file' = file
         /\ last'.saves = 0
    ]_vars

\* C8 happens: a report was made of an index of one active and one unverified
\* record.
C8_Witness ==
  /\ last.op = "stats"
  /\ last.stats = [total |-> 2, active |-> 1, unverified |-> 1]

\* C9: in every state every record with verified true has status active, so
\* none is pending and verified.
C9_VerifiedIsActive ==
  \A i \in Positions(subscribers) :
    /\ subscribers[i][2].verified => subscribers[i][2].status = "active"
    /\ ~(subscribers[i][2].status = "pending" /\ subscribers[i][2].verified)

\* C9 happens: a manager constructed on the backing file holds a verified
\* record and a pending one.
C9_Witness ==
  /\ last.op = "init"
  /\ \E i \in Positions(subscribers) : subscribers[i][2].verified
  /\ \E i \in Positions(subscribers) : subscribers[i][2].status = "pending"

\* C10: in every state every key of the index is lower-cased, no two records
\* describe the same lower-cased address, and each key is the email field of
\* the record stored under it.
C10_KeysLowerUnique ==
  /\ \A i \in Positions(subscribers) :
       /\ subscribers[i][1] = Lower(subscribers[i][1])
       /\ subscribers[i][1] = subscribers[i][2].email
  /\ \A i \in Positions(subscribers) : \A j \in Positions(subscribers) :
       (i # j) =>
         /\ subscribers[i][1] # subscribers[j][1]
         /\ Lower(subscribers[i][2].email) # Lower(subscribers[j][2].email)

\* C10 happens: the index holds two records, one of them registered under a
\* spelling with capital letters.
C10_Witness ==
  /\ Len(subscribers) = 2
  /\ \E i \in Positions(subscribers) :
       subscribers[i][2].verification_token[1] # subscribers[i][1]

\* The call just made ran save_subscribers and its write failed.
WriteFailed(call) == call.saves = 1 /\ call.outcome # "ok"

\* C11: when the write of the backing file fails during a successful
\* add_subscriber or verify_subscriber the call still returns 201 / 200, and
\* the mutation stays in memory although the file, left as it was or
\* truncated, does not yield it when loaded: the next duplicate check,
\* verification and report see it.
C11_WriteFailureAbsorbed ==
  [][ /\ (last'.op = "add" /\ WriteFailed(last'))
           => /\ last'.code = 201
              /\ ~DictHas(subscribers, Lower(NormalizedEmail(last'.email)))
              /\ DictHas(subscribers', Lower(NormalizedEmail(last'.email)))
              /\ file' \in {file, CorruptFile}
              /\ ~DictHas(Construct(file'), Lower(NormalizedEmail(last'.email)))
      /\ (last'.op = "verify" /\ WriteFailed(last'))
           => /\ last'.code = 200
              /\ \E i \in Positions(subscribers') :
                   /\ subscribers'[i][2].verification_token = last'.token
                   /\ subscribers'[i][2].verified
                   /\ subscribers'[i][2].status = "active"
              /\ file' \in {file, CorruptFile}
              /\ last'.before = "pending"
                   => \A i \in Positions(Construct(file')) :
                        Construct(file')[i][2].verification_token = last'.token
                          => ~Construct(file')[i][2].verified
      /\ (last.op = "add" /\ WriteFailed(last))
           => /\ (last'.op = "add" /\ Lower(last'.email) = Lower(last.email))
                   => last'.code = 409
              /\ ( /\ last'.op = "verify"
                   /\ last'.token =
                        DictGet(subscribers, Lower(NormalizedEmail(last.email))).verification_token )
                   => last'.code = 200
              /\ last'.op = "stats"
                   => last'.stats.total = Len(subscribers) /\ last'.stats.total >= 1
      /\ (last.op = "verify" /\ WriteFailed(last))
           => /\ (last'.op = "verify" /\ last'.token = last.token) => last'.code = 200
              /\ last'.op = "stats" => last'.stats.active >= 1
    ]_vars

\* C11 happens: a report counts a record whose registration returned 201 while
\* its write failed, and which the backing file does not hold.
C11_Witness ==
  /\ last.op = "add" /\ last.code = 201 /\ last.outcome = "open_failed"
  /\ file.kind = "json"
  /\ Len(subscribers) = 2
  /\ Len(Construct(file)) = 1

\* C12: during the life of a manager no record's last_updated ever decreases;
\* a successful add_subscriber gives the record it creates, and a successful
\* verify_subscriber the record it matches, the time of the call as
\* last_updated; calls that fail or only read leave every last_updated as it
\* was.
C12_LastUpdatedMonotone ==
  [][ last'.op # "init"
      => /\ Len(subscribers') >= Len(subscribers)
         /\ \A i \in Positions(subscribers) :
              subscribers'[i][2].last_updated >= subscribers[i][2].last_updated
         /\ (last'.op = "add" /\ last'.code = 201)
              => /\ subscribers'[Len(subscribers')][2].last_updated = clock'
                 /\ \A i \in Positions(subscribers) :
                      subscribers'[i][2].last_updated = subscribers[i][2].last_updated
         /\ (last'.op = "verify" /\ last'.code = 200)
              => \A i \in Positions(subscribers) :
                   subscribers'[i][2].last_updated =
                     IF i = FindToken(subscribers, last'.token)
                     THEN clock'
                     ELSE subscribers[i][2].last_updated
         /\ (last'.op = "stats" \/ last'.code \in {400, 409})
              => /\ Len(subscribers') = Len(subscribers)
                 /\ \A i \in Positions(subscribers) :
                      subscribers'[i][2].last_updated = subscribers[i][2].last_updated
    ]_vars

\* C12 happens: a record was verified at a later tick than it was created at,
\* beside a record that kept its time.
C12_Witness ==
  /\ last.op = "verify" /\ last.code = 200 /\ last.before = "pending"
  /\ Len(subscribers) = 2
  /\ \E i \in Positions(subscribers) :
       /\ subscribers[i][2].verification_token = last.token
       /\ subscribers[i][2].last_updated = clock
       /\ subscribers[i][2].joined_date < clock

\* C13: during the life of a manager records are created only by a successful
\* add_subscriber and never deleted: a key of the index stays a key after
\* every call, failed calls and failed writes included.
C13_KeysOnlyGrow ==
  [][ last'.op # "init"
      => /\ \A i \in Positions(subscribers) : DictHas(subscribers', subscribers[i][1])
         /\ Len(subscribers') # Len(subscribers)
              => /\ last'.op = "add" /\ last'.code = 201
                 /\ Len(subscribers') = Len(subscribers) + 1
    ]_vars

\* C13 happens: a registration whose write failed added a key beside the one
\* the index held.
C13_Witness ==
  /\ last.op = "add" /\ last.code = 201 /\ last.outcome = "write_failed"
  /\ Len(subscribers) = 2

\* The file holds a JSON text all of whose entries make a Subscriber.
WellFormedFile(f) ==
  f.kind = "json" /\ \A i \in 1..Len(f.text[2]) : SubscriberArgsOK(f.text[2][i][2])

\* C14: constructing a manager never raises; on an absent file the index is
\* empty, and on a file that is corrupt or has entries without the Subscriber
\* fields it is empty as well, never partially loaded.
C14_ConstructNeverRaises ==
  last.op = "init"
    => /\ last.outcome # "raised"
       /\ file.kind = "absent" => subscribers = << >>
       /\ ~WellFormedFile(file) => subscribers = << >>
       /\ WellFormedFile(file) => Len(subscribers) = Len(file.text[2])

\* C14 happens: a manager was constructed on a JSON file one of whose entries
\* makes a Subscriber and one does not.
C14_Witness ==
  /\ last.op = "init"
  /\ file.kind = "json"
  /\ \E i \in 1..Len(file.text[2]) : SubscriberArgsOK(file.text[2][i][2])
  /\ \E i \in 1..Len(file.text[2]) : ~SubscriberArgsOK(file.text[2][i][2])

\* C15: during the life of a manager every record starts pending; the only
\* change of status is pending -> active, made by a verify_subscriber step
\* with the record's own token; an active record stays active and verified.
C15_StatusMachine ==
  [][ last'.op # "init"
      => /\ \A i \in Positions(subscribers') :
              i > Len(subscribers) => subscribers'[i][2].status = "pending"
         /\ \A i \in Positions(subscribers) :
              /\ subscribers'[i][2].status # subscribers[i][2].status
                   => /\ subscribers[i][2].status = "pending"
                      /\ subscribers'[i][2].status = "active"
                      /\ last'.op = "verify"
                      /\ last'.token = subscribers[i][2].verification_token
              /\ subscribers[i][2].status = "active"
                   => /\ subscribers'[i][2].status = "active"
                      /\ subscribers'[i][2].verified
    ]_vars

\* C15 happens: an active record was verified again and stayed active, beside
\* a pending record.
C15_Witness ==
  /\ last.op = "verify" /\ last.code = 200 /\ last.before = "active"
  /\ \E i \in Positions(subscribers) : subscribers[i][2].status = "pending"
  /\ \E i \in Positions(subscribers) : subscribers[i][2].status = "active"

\* C16: right after a successful add_subscriber the new record's joined_date
\* equals its last_updated, however the clock advances during the call.
C16_JoinedEqualsLastUpdated ==
  [][ (last'.op = "add" /\ last'.code = 201)
      => subscribers'[Len(subscribers')][2].joined_date =
           subscribers'[Len(subscribers')][2].last_updated
    ]_vars

\* C17: when every write succeeds, from an absent file, after every call the
\* backing file holds the text of the whole index (no file standing for the
\* empty index); a successful add_subscriber or verify_subscriber saved
\* exactly once, a failed call or a report not at all.
C17_FileEqualsIndex ==
  /\ file.kind \in {"absent", "json"}
  /\ file.kind = "absent" => subscribers = << >>
  /\ file.kind = "json" => file.text = JsonDump(subscribers)
  /\ (last.op \in {"add", "verify"} /\ last.code \in {200, 201}) => last.saves = 1
  /\ (last.op = "stats" \/ last.code \in {400, 409}) => last.saves = 0

\* C17 happens: a verification was saved to a file holding two records.
C17_Witness ==
  /\ last.op = "verify" /\ last.code = 200 /\ last.saves = 1
  /\ file.kind = "json" /\ Len(file.text[2]) = 2

\* The threads that have returned, and those that returned a success.
Returned(t) == threads[t].pc = "done"

Succeeded(t) == Returned(t) /\ threads[t].code \in {200, 201}

\* C18: with two mutating calls in flight and no lock, the index keeps what
\* every successful call did to it, and when no write fails the file holds the
\* dict one of the writers built, which need not be the index as it stands: a
\* writer that built its dict earlier may write later.
C18_FileIsSomeSnapshot ==
  /\ \A t \in ThreadIds :
       Succeeded(t) /\ threads[t].op = "add" =>
         DictHas(subscribers, IndexKey(threads[t].email))
  /\ \A t \in ThreadIds :
       Succeeded(t) /\ threads[t].op = "verify" =>
         \E i \in Positions(subscribers) :
           /\ subscribers[i][2].verification_token = threads[t].token
           /\ subscribers[i][2].verified
  /\ ( /\ \E t \in ThreadIds : threads[t].wrote = "ok"
       /\ \A t \in ThreadIds : threads[t].wrote \in {"ok", "none"} )
     => /\ file.kind = "json"
        /\ \E t \in ThreadIds : threads[t].wrote = "ok" /\ file.text = threads[t].data

\* C18 happens: two registrations of different addresses both returned 201, both
\* writes succeeded, the index holds both records and the file, loaded, lacks
\* one of them.
C18_Witness ==
  /\ \A t \in ThreadIds :
       /\ Succeeded(t)
       /\ threads[t].op = "add"
       /\ threads[t].wrote = "ok"
       /\ DictHas(subscribers, IndexKey(threads[t].email))
  /\ \E t \in ThreadIds : ~DictHas(Construct(file), IndexKey(threads[t].email))

\* C19: of the registrations whose addresses lower-case to the same key at most
\* one returns success, and the record a successful registration created stays
\* under its key with its token.
C19_OneSuccessPerEmail ==
  /\ \A t, u \in ThreadIds :
       ( /\ t # u
         /\ threads[t].op = "add" /\ threads[u].op = "add"
         /\ Succeeded(t) /\ Succeeded(u) )
       => IndexKey(threads[t].email) # IndexKey(threads[u].email)
  /\ \A t \in ThreadIds :
       Succeeded(t) /\ threads[t].op = "add" =>
         /\ DictHas(subscribers, IndexKey(threads[t].email))
         /\ DictGet(subscribers, IndexKey(threads[t].email)).verification_token
              = threads[t].sub.verification_token

\* C20: every report partitions the records, active + unverified = total, a
\* record being verified exactly when its status is active.
C20_StatsPartition ==
  /\ last.op = "stats" => last.stats.active + last.stats.unverified = last.stats.total
  /\ \A i \in Positions(subscribers) :
       subscribers[i][2].verified <=> subscribers[i][2].status = "active"

\* C20 happens: a report was made of an active and a pending record by a
\* manager whose backing file is still absent.
C20_Witness ==
  /\ last.op = "stats"
  /\ last.stats.total = 2 /\ last.stats.active = 1
  /\ file.kind = "absent"

====
